---- MODULE Spec2Model ----
(***************************************************************************)
(* Model of ext/node/ops/crypto/digest.rs: the Hasher handle (a cell that  *)
(* holds Option<Hash>), the Hash enum (FixedSize / Shake128 / Shake256),   *)
(* name resolution in Hash::new, and the tables get_hashes / get_size.     *)
(*                                                                         *)
(* Option<T> is a sequence of length 0 (None) or 1 (Some(x)).  A digest    *)
(* primitive is opaque: its context is the primitive's type together with  *)
(* the bytes fed so far, and its output is the term                        *)
(* [prim, input, len] standing for `len` bytes of prim(input).             *)
(***************************************************************************)
EXTENDS Integers, Sequences, FiniteSets, TLC

\* ------------------------------------------------------------------ bounds
MaxHandles == 2
MaxInput == 2
MaxOutputLength == 65

\* ------------------------------------------------------------ Option<T>
None == <<>>
Some(x) == <<x>>
IsSome(o) == Len(o) = 1
IsNone(o) == Len(o) = 0
Unwrap(o) == o[1]
unwrap_or(o, d) == IF IsSome(o) THEN o[1] ELSE d

\* ------------------------------------------------- the digest primitives
\* Output size of the primitives of the external digest crates
\* (blake2, sm3, md4, md5, ripemd, sha1, sha2, sha3).
DigestOutputSize(prim) ==
  CASE prim = "Blake2b512" -> 64
    [] prim = "Blake2s256" -> 32
    [] prim = "Sm3"        -> 32
    [] prim = "Md4"        -> 16
    [] prim = "Md5"        -> 16
    [] prim = "Ripemd160"  -> 20
    [] prim = "Sha1"       -> 20
    [] prim = "Sha224"     -> 28
    [] prim = "Sha256"     -> 32
    [] prim = "Sha384"     -> 48
    [] prim = "Sha512"     -> 64
    [] prim = "Sha512_224" -> 28
    [] prim = "Sha512_256" -> 32
    [] prim = "Sha3_224"   -> 28
    [] prim = "Sha3_256"   -> 32
    [] prim = "Sha3_384"   -> 48
    [] prim = "Sha3_512"   -> 64

\* Output size of the primitives defined in sibling modules of this crate
\* (ring_sha2::RingSha256, ring_sha2::RingSha512, md5_sha1::Md5Sha1).
LocalOutputSize(prim) ==
  CASE prim = "RingSha256" -> 32
    [] prim = "RingSha512" -> 64
    [] prim = "Md5Sha1"    -> 20

LocalPrims == {"RingSha256", "RingSha512", "Md5Sha1"}

\* DynDigest::output_size
output_size(prim) ==
  IF prim \in LocalPrims THEN LocalOutputSize(prim) ELSE DigestOutputSize(prim)

\* ------------------------------------------------------ name resolution
\* The value "other" stands for the macro's `_ => $other` arm.
match_fixed_digest_with_oid(algorithm_name) ==
  CASE algorithm_name \in {"rsa-md5", "md5", "md5withrsaencryption", "ssl3-md5"}
         -> "Md5"
    [] algorithm_name \in {"rsa-ripemd160", "ripemd", "ripemd160",
                           "ripemd160withrsa", "rmd160"}
         -> "Ripemd160"
    [] algorithm_name \in {"rsa-sha1", "rsa-sha1-2", "sha1", "sha1-2",
                           "sha1withrsaencryption", "ssl3-sha1"}
         -> "Sha1"
    [] algorithm_name \in {"rsa-sha224", "sha224", "sha224withrsaencryption"}
         -> "Sha224"
    [] algorithm_name \in {"rsa-sha256", "sha256", "sha256withrsaencryption"}
         -> "Sha256"
    [] algorithm_name \in {"rsa-sha384", "sha384", "sha384withrsaencryption"}
         -> "Sha384"
    [] algorithm_name \in {"rsa-sha512", "sha512", "sha512withrsaencryption"}
         -> "Sha512"
    [] algorithm_name \in {"rsa-sha512/224", "sha512-224",
                           "sha512-224withrsaencryption"}
         -> "Sha512_224"
    [] algorithm_name \in {"rsa-sha512/256", "sha512-256",
                           "sha512-256withrsaencryption"}
         -> "Sha512_256"
    [] algorithm_name \in {"rsa-sha3-224", "id-rsassa-pkcs1-v1_5-with-sha3-224",
                           "sha3-224"}
         -> "Sha3_224"
    [] algorithm_name \in {"rsa-sha3-256", "id-rsassa-pkcs1-v1_5-with-sha3-256",
                           "sha3-256"}
         -> "Sha3_256"
    [] algorithm_name \in {"rsa-sha3-384", "id-rsassa-pkcs1-v1_5-with-sha3-384",
                           "sha3-384"}
         -> "Sha3_384"
    [] algorithm_name \in {"rsa-sha3-512", "id-rsassa-pkcs1-v1_5-with-sha3-512",
                           "sha3-512"}
         -> "Sha3_512"
    [] OTHER -> "other"

\* Mutant: the alias "rsa-sm3" is missing from the Sm3 arm.
match_fixed_digest_without_alias(algorithm_name) ==
  CASE algorithm_name \in {"sm3", "sm3withrsaencryption"} -> "Sm3"
    [] algorithm_name \in {"rsa-md4", "md4", "md4withrsaencryption"} -> "Md4"
    [] algorithm_name = "md5-sha1" -> "Md5Sha1"
    [] OTHER -> match_fixed_digest_with_oid(algorithm_name)

match_fixed_digest_with_eager_block_buffer(algorithm_name) ==
  CASE algorithm_name \in {"rsa-sm3", "sm3", "sm3withrsaencryption"} -> "Sm3"
    [] algorithm_name \in {"rsa-md4", "md4", "md4withrsaencryption"} -> "Md4"
    [] algorithm_name = "md5-sha1" -> "Md5Sha1"
    [] OTHER -> match_fixed_digest_with_oid(algorithm_name)

match_fixed_digest(algorithm_name) ==
  CASE algorithm_name = "blake2b512" -> "Blake2b512"
    [] algorithm_name = "blake2s256" -> "Blake2s256"
    [] OTHER -> match_fixed_digest_with_eager_block_buffer(algorithm_name)

\* ------------------------------------------------------------- enum Hash
\* A fresh primitive (Digest::new / Default::default): nothing fed yet.
NewContext(prim) == [prim |-> prim, data |-> <<>>]

FixedSize(context) == [tag |-> "FixedSize", context |-> context]
Shake128(context, output_length) ==
  [tag |-> "Shake128", context |-> context, output_length |-> output_length]
Shake256(context, output_length) ==
  [tag |-> "Shake256", context |-> context, output_length |-> output_length]

\* Result<T, HashError>
Ok(v) == [ok |-> TRUE, val |-> Some(v), err |-> "", arg |-> ""]
Err(e, a) == [ok |-> FALSE, val |-> None, err |-> e, arg |-> a]

\* Mutant: the requested length is not compared with the digest's size.
CheckedFixed_unchecked(prim, output_length) == Ok(FixedSize(NewContext(prim)))

\* The length check made on a freshly built fixed-size digest.
CheckedFixed(prim, output_length) ==
  IF IsSome(output_length) /\ Unwrap(output_length) # output_size(prim)
    THEN Err("OutputLengthMismatch", "")
    ELSE Ok(FixedSize(NewContext(prim)))

\* Mutant: a requested length is rejected before the name is looked up.
Hash_new_length_first(algorithm_name, output_length) ==
  CASE algorithm_name \in {"shake128", "shake-128"}
         -> Ok(Shake128(NewContext("Shake128"), output_length))
    [] algorithm_name \in {"shake256", "shake-256"}
         -> Ok(Shake256(NewContext("Shake256"), output_length))
    [] algorithm_name = "sha256" -> CheckedFixed("RingSha256", output_length)
    [] algorithm_name = "sha512" -> CheckedFixed("RingSha512", output_length)
    [] OTHER ->
         LET D == match_fixed_digest(algorithm_name) IN
         IF D = "other"
           THEN IF IsSome(output_length)
                  THEN Err("OutputLengthMismatch", "")
                  ELSE Err("DigestMethodUnsupported", algorithm_name)
           ELSE CheckedFixed(D, output_length)

\* Mutant: a shake length other than the default is refused.
Hash_new_shake_checked(algorithm_name, output_length) ==
  CASE algorithm_name \in {"shake128", "shake-128"}
         -> IF IsSome(output_length) /\ Unwrap(output_length) # 16
              THEN Err("OutputLengthMismatch", "")
              ELSE Ok(Shake128(NewContext("Shake128"), output_length))
    [] algorithm_name \in {"shake256", "shake-256"}
         -> IF IsSome(output_length) /\ Unwrap(output_length) # 32
              THEN Err("OutputLengthMismatch", "")
              ELSE Ok(Shake256(NewContext("Shake256"), output_length))
    [] algorithm_name = "sha256" -> CheckedFixed("RingSha256", output_length)
    [] algorithm_name = "sha512" -> CheckedFixed("RingSha512", output_length)
    [] OTHER ->
         LET D == match_fixed_digest(algorithm_name) IN
         IF D = "other"
           THEN Err("DigestMethodUnsupported", algorithm_name)
           ELSE CheckedFixed(D, output_length)

\* Mutant: the sha256 and sha512 arms skip the length check.
Hash_new_provider_unchecked(algorithm_name, output_length) ==
  CASE algorithm_name \in {"shake128", "shake-128"}
         -> Ok(Shake128(NewContext("Shake128"), output_length))
    [] algorithm_name \in {"shake256", "shake-256"}
         -> Ok(Shake256(NewContext("Shake256"), output_length))
    [] algorithm_name = "sha256" -> Ok(FixedSize(NewContext("RingSha256")))
    [] algorithm_name = "sha512" -> Ok(FixedSize(NewContext("RingSha512")))
    [] OTHER ->
         LET D == match_fixed_digest(algorithm_name) IN
         IF D = "other"
           THEN Err("DigestMethodUnsupported", algorithm_name)
           ELSE CheckedFixed(D, output_length)

Hash_new(algorithm_name, output_length) ==
  CASE algorithm_name \in {"shake128", "shake-128"}
         -> Ok(Shake128(NewContext("Shake128"), output_length))
    [] algorithm_name \in {"shake256", "shake-256"}
         -> Ok(Shake256(NewContext("Shake256"), output_length))
    [] algorithm_name = "sha256" -> CheckedFixed("RingSha256", output_length)
    [] algorithm_name = "sha512" -> CheckedFixed("RingSha512", output_length)
    [] OTHER ->
         LET D == match_fixed_digest(algorithm_name) IN
         IF D = "other"
           THEN Err("DigestMethodUnsupported", algorithm_name)
           ELSE CheckedFixed(D, output_length)

\* The primitive's update: the bytes are appended to what was fed before.
ContextUpdate(context, data) == [context EXCEPT !.data = @ \o data]

Hash_update(self, data) == [self EXCEPT !.context = ContextUpdate(@, data)]

\* The primitive's output: `len` bytes of prim(input).
Output(context, len) ==
  [prim |-> context.prim, input |-> context.data, len |-> len]

\* Mutant: both shake variants fall back to the same default length.
Hash_digest_one_default(self) ==
  CASE self.tag = "FixedSize"
         -> Output(self.context, output_size(self.context.prim))
    [] self.tag = "Shake128"
         -> Output(self.context, unwrap_or(self.output_length, 32))
    [] self.tag = "Shake256"
         -> Output(self.context, unwrap_or(self.output_length, 32))

Hash_digest_and_drop(self) ==
  CASE self.tag = "FixedSize"
         -> Output(self.context, output_size(self.context.prim))
    [] self.tag = "Shake128"
         -> Output(self.context, unwrap_or(self.output_length, 16))
    [] self.tag = "Shake256"
         -> Output(self.context, unwrap_or(self.output_length, 32))

\* Mutant: the clone starts from a fresh primitive instead of a copy.
Hash_clone_hash_fresh(self, output_length) ==
  CASE self.tag = "FixedSize" ->
         IF IsSome(output_length)
            /\ Unwrap(output_length) # output_size(self.context.prim)
           THEN Err("OutputLengthMismatch", "")
           ELSE Ok(FixedSize(NewContext(self.context.prim)))
    [] self.tag = "Shake128"
         -> Ok(Shake128(NewContext(self.context.prim), output_length))
    [] self.tag = "Shake256"
         -> Ok(Shake256(NewContext(self.context.prim), output_length))

\* Mutant: the length check on a fixed-size clone is left out.
Hash_clone_hash_unchecked(self, output_length) ==
  CASE self.tag = "FixedSize" -> Ok(FixedSize(self.context))
    [] self.tag = "Shake128" -> Ok(Shake128(self.context, output_length))
    [] self.tag = "Shake256" -> Ok(Shake256(self.context, output_length))

\* Mutant: a shake clone keeps the output length of the original.
Hash_clone_hash_keep(self, output_length) ==
  CASE self.tag = "FixedSize" ->
         IF IsSome(output_length)
            /\ Unwrap(output_length) # output_size(self.context.prim)
           THEN Err("OutputLengthMismatch", "")
           ELSE Ok(FixedSize(self.context))
    [] self.tag = "Shake128" -> Ok(Shake128(self.context, self.output_length))
    [] self.tag = "Shake256" -> Ok(Shake256(self.context, self.output_length))

\* Mutant: a shake clone made without a length inherits the original's.
Hash_clone_hash_inherit(self, output_length) ==
  CASE self.tag = "FixedSize" ->
         IF IsSome(output_length)
            /\ Unwrap(output_length) # output_size(self.context.prim)
           THEN Err("OutputLengthMismatch", "")
           ELSE Ok(FixedSize(self.context))
    [] self.tag = "Shake128" ->
         Ok(Shake128(self.context,
                     IF IsSome(output_length) THEN output_length
                     ELSE self.output_length))
    [] self.tag = "Shake256" ->
         Ok(Shake256(self.context,
                     IF IsSome(output_length) THEN output_length
                     ELSE self.output_length))

Hash_clone_hash(self, output_length) ==
  CASE self.tag = "FixedSize" ->
         IF IsSome(output_length)
            /\ Unwrap(output_length) # output_size(self.context.prim)
           THEN Err("OutputLengthMismatch", "")
           ELSE Ok(FixedSize(self.context))
    [] self.tag = "Shake128" -> Ok(Shake128(self.context, output_length))
    [] self.tag = "Shake256" -> Ok(Shake256(self.context, output_length))

get_hashes ==
  << "RSA-MD4", "RSA-MD5", "RSA-RIPEMD160", "RSA-SHA1", "RSA-SHA1-2",
     "RSA-SHA224", "RSA-SHA256", "RSA-SHA3-224", "RSA-SHA3-256",
     "RSA-SHA3-384", "RSA-SHA3-512", "RSA-SHA384", "RSA-SHA512",
     "RSA-SHA512/224", "RSA-SHA512/256", "RSA-SM3", "blake2b512",
     "blake2s256", "id-rsassa-pkcs1-v1_5-with-sha3-224",
     "id-rsassa-pkcs1-v1_5-with-sha3-256",
     "id-rsassa-pkcs1-v1_5-with-sha3-384",
     "id-rsassa-pkcs1-v1_5-with-sha3-512", "md4", "md4WithRSAEncryption",
     "md5", "md5-sha1", "md5WithRSAEncryption", "ripemd", "ripemd160",
     "ripemd160WithRSA", "rmd160", "sha1", "sha1WithRSAEncryption", "sha224",
     "sha224WithRSAEncryption", "sha256", "sha256WithRSAEncryption",
     "sha3-224", "sha3-256", "sha3-384", "sha3-512", "sha384",
     "sha384WithRSAEncryption", "sha512", "sha512-224",
     "sha512-224WithRSAEncryption", "sha512-256",
     "sha512-256WithRSAEncryption", "sha512WithRSAEncryption", "shake128",
     "shake256", "sm3", "sm3WithRSAEncryption", "ssl3-md5", "ssl3-sha1" >>

\* Mutant: the shake arms give the default output length as the size.
get_size_shake_default(algorithm_name) ==
  CASE algorithm_name \in {"RSA-MD4", "RSA-MD5", "md4", "md4WithRSAEncryption",
                           "md5", "md5WithRSAEncryption", "ssl3-md5"}
         -> Some(16)
    [] algorithm_name \in {"RSA-RIPEMD160", "RSA-SHA1", "RSA-SHA1-2",
                           "md5-sha1", "ripemd", "ripemd160",
                           "ripemd160WithRSA", "rmd160", "sha1",
                           "sha1WithRSAEncryption", "ssl3-sha1"}
         -> Some(20)
    [] algorithm_name \in {"RSA-SHA224", "RSA-SHA3-224", "RSA-SHA512/224",
                           "id-rsassa-pkcs1-v1_5-with-sha3-224", "sha224",
                           "sha224WithRSAEncryption", "sha3-224", "sha512-224",
                           "sha512-224WithRSAEncryption"}
         -> Some(28)
    [] algorithm_name \in {"RSA-SHA256", "RSA-SHA3-256", "RSA-SHA512/256",
                           "RSA-SM3", "blake2s256",
                           "id-rsassa-pkcs1-v1_5-with-sha3-256", "sha256",
                           "sha256WithRSAEncryption", "sha3-256", "sha512-256",
                           "sha512-256WithRSAEncryption", "sm3",
                           "sm3WithRSAEncryption"}
         -> Some(32)
    [] algorithm_name \in {"RSA-SHA3-384", "RSA-SHA384",
                           "id-rsassa-pkcs1-v1_5-with-sha3-384", "sha3-384",
                           "sha384", "sha384WithRSAEncryption"}
         -> Some(48)
    [] algorithm_name \in {"RSA-SHA3-512", "RSA-SHA512", "blake2b512",
                           "id-rsassa-pkcs1-v1_5-with-sha3-512", "sha3-512",
                           "sha512", "sha512WithRSAEncryption"}
         -> Some(64)
    [] algorithm_name = "shake128" -> Some(16)
    [] algorithm_name = "shake256" -> Some(32)
    [] OTHER -> None

get_size(algorithm_name) ==
  CASE algorithm_name \in {"RSA-MD4", "RSA-MD5", "md4", "md4WithRSAEncryption",
                           "md5", "md5WithRSAEncryption", "ssl3-md5"}
         -> Some(16)
    [] algorithm_name \in {"RSA-RIPEMD160", "RSA-SHA1", "RSA-SHA1-2",
                           "md5-sha1", "ripemd", "ripemd160",
                           "ripemd160WithRSA", "rmd160", "sha1",
                           "sha1WithRSAEncryption", "ssl3-sha1"}
         -> Some(20)
    [] algorithm_name \in {"RSA-SHA224", "RSA-SHA3-224", "RSA-SHA512/224",
                           "id-rsassa-pkcs1-v1_5-with-sha3-224", "sha224",
                           "sha224WithRSAEncryption", "sha3-224", "sha512-224",
                           "sha512-224WithRSAEncryption"}
         -> Some(28)
    [] algorithm_name \in {"RSA-SHA256", "RSA-SHA3-256", "RSA-SHA512/256",
                           "RSA-SM3", "blake2s256",
                           "id-rsassa-pkcs1-v1_5-with-sha3-256", "sha256",
                           "sha256WithRSAEncryption", "sha3-256", "sha512-256",
                           "sha512-256WithRSAEncryption", "sm3",
                           "sm3WithRSAEncryption"}
         -> Some(32)
    [] algorithm_name \in {"RSA-SHA3-384", "RSA-SHA384",
                           "id-rsassa-pkcs1-v1_5-with-sha3-384", "sha3-384",
                           "sha384", "sha384WithRSAEncryption"}
         -> Some(48)
    [] algorithm_name \in {"RSA-SHA3-512", "RSA-SHA512", "blake2b512",
                           "id-rsassa-pkcs1-v1_5-with-sha3-512", "sha3-512",
                           "sha512", "sha512WithRSAEncryption"}
         -> Some(64)
    [] algorithm_name \in {"shake128", "shake256"} -> None
    [] OTHER -> None

\* ---------------------------------------------------------- struct Hasher
\* The cell behind Hasher.hash: Some(hash) while live, None once taken.
Hasher(hash) == [hash |-> hash]

Hasher_new(algorithm, output_length) ==
  LET r == Hash_new(algorithm, output_length) IN
  IF r.ok THEN Ok(Hasher(Some(Unwrap(r.val)))) ELSE r

\* Mutant: update() reports success whether or not a hash is left.
Hasher_update_unchecked(self, data) ==
  IF IsSome(self.hash)
    THEN [self |-> Hasher(Some(Hash_update(Unwrap(self.hash), data))),
          ret |-> TRUE]
    ELSE [self |-> self, ret |-> TRUE]

\* Mutant: update() takes the hash out of the cell and never puts it back.
Hasher_update_take(self, data) ==
  IF IsSome(self.hash)
    THEN [self |-> Hasher(None), ret |-> TRUE]
    ELSE [self |-> self, ret |-> FALSE]

\* Returns the cell after the call and the bool the call returns.
Hasher_update(self, data) ==
  IF IsSome(self.hash)
    THEN [self |-> Hasher(Some(Hash_update(Unwrap(self.hash), data))),
          ret |-> TRUE]
    ELSE [self |-> self, ret |-> FALSE]

\* Mutant: digest() reads the hash without taking it out of the cell.
Hasher_digest_peek(self) ==
  IF IsSome(self.hash)
    THEN [self |-> self, ret |-> Some(Hash_digest_and_drop(Unwrap(self.hash)))]
    ELSE [self |-> self, ret |-> None]

\* Returns the cell after the call (take() leaves None) and Option<output>.
Hasher_digest(self) ==
  IF IsSome(self.hash)
    THEN [self |-> Hasher(None),
          ret |-> Some(Hash_digest_and_drop(Unwrap(self.hash)))]
    ELSE [self |-> Hasher(None), ret |-> None]

\* Mutant: cloning a handle whose hash was taken is reported as an error.
Hasher_clone_inner_strict(self, output_length) ==
  IF IsNone(self.hash)
    THEN Err("OutputLengthMismatch", "")
    ELSE LET r == Hash_clone_hash(Unwrap(self.hash), output_length) IN
         IF r.ok THEN Ok(Some(Hasher(Some(Unwrap(r.val))))) ELSE r

\* Result<Option<Hasher>, HashError>; the receiver is only borrowed.
Hasher_clone_inner(self, output_length) ==
  IF IsNone(self.hash)
    THEN Ok(None)
    ELSE LET r == Hash_clone_hash(Unwrap(self.hash), output_length) IN
         IF r.ok THEN Ok(Some(Hasher(Some(Unwrap(r.val))))) ELSE r

\* ------------------------------------------------------------------ state
VARIABLES
  handles,  \* the Hasher objects created so far, in creation order
  made,     \* history: the name and length each handle was created with,
            \* and the handle it was cloned from (0 when resolved by name)
  fed,      \* history: the bytes each handle accepted, inherited ones first
  taken,    \* history: how many digests each handle has returned
  last      \* the last call: its operation, arguments and return value

vars == <<handles, made, fed, taken, last>>

\* ----------------------------------------------------------------- inputs
\* update() is called with one byte at a time, drawn from two byte values.
Bytes == {1, 2}
Chunks == {<<b>> : b \in Bytes}

Range(f) == {f[i] : i \in DOMAIN f}

\* Every name some arm of Hash::new or of the macros matches.
AliasNames ==
  {"shake128", "shake-128", "shake256", "shake-256",
   "blake2b512", "blake2s256",
   "rsa-sm3", "sm3", "sm3withrsaencryption",
   "rsa-md4", "md4", "md4withrsaencryption", "md5-sha1",
   "rsa-md5", "md5", "md5withrsaencryption", "ssl3-md5",
   "rsa-ripemd160", "ripemd", "ripemd160", "ripemd160withrsa", "rmd160",
   "rsa-sha1", "rsa-sha1-2", "sha1", "sha1-2", "sha1withrsaencryption",
   "ssl3-sha1",
   "rsa-sha224", "sha224", "sha224withrsaencryption",
   "rsa-sha256", "sha256", "sha256withrsaencryption",
   "rsa-sha384", "sha384", "sha384withrsaencryption",
   "rsa-sha512", "sha512", "sha512withrsaencryption",
   "rsa-sha512/224", "sha512-224", "sha512-224withrsaencryption",
   "rsa-sha512/256", "sha512-256", "sha512-256withrsaencryption",
   "rsa-sha3-224", "id-rsassa-pkcs1-v1_5-with-sha3-224", "sha3-224",
   "rsa-sha3-256", "id-rsassa-pkcs1-v1_5-with-sha3-256", "sha3-256",
   "rsa-sha3-384", "id-rsassa-pkcs1-v1_5-with-sha3-384", "sha3-384",
   "rsa-sha3-512", "id-rsassa-pkcs1-v1_5-with-sha3-512", "sha3-512"}

\* The lower-case form of a name, as the caller of Hash::new passes it (the
\* arms of Hash::new are written in lower case); tabulated for the names
\* below that contain an upper-case letter.
ToLower(name) ==
  CASE name = "RSA-MD4" -> "rsa-md4"
    [] name = "RSA-MD5" -> "rsa-md5"
    [] name = "RSA-RIPEMD160" -> "rsa-ripemd160"
    [] name = "RSA-SHA1" -> "rsa-sha1"
    [] name = "RSA-SHA1-2" -> "rsa-sha1-2"
    [] name = "RSA-SHA224" -> "rsa-sha224"
    [] name = "RSA-SHA256" -> "rsa-sha256"
    [] name = "RSA-SHA3-224" -> "rsa-sha3-224"
    [] name = "RSA-SHA3-256" -> "rsa-sha3-256"
    [] name = "RSA-SHA3-384" -> "rsa-sha3-384"
    [] name = "RSA-SHA3-512" -> "rsa-sha3-512"
    [] name = "RSA-SHA384" -> "rsa-sha384"
    [] name = "RSA-SHA512" -> "rsa-sha512"
    [] name = "RSA-SHA512/224" -> "rsa-sha512/224"
    [] name = "RSA-SHA512/256" -> "rsa-sha512/256"
    [] name = "RSA-SM3" -> "rsa-sm3"
    [] name = "md4WithRSAEncryption" -> "md4withrsaencryption"
    [] name = "md5WithRSAEncryption" -> "md5withrsaencryption"
    [] name = "ripemd160WithRSA" -> "ripemd160withrsa"
    [] name = "sha1WithRSAEncryption" -> "sha1withrsaencryption"
    [] name = "sha224WithRSAEncryption" -> "sha224withrsaencryption"
    [] name = "sha256WithRSAEncryption" -> "sha256withrsaencryption"
    [] name = "sha384WithRSAEncryption" -> "sha384withrsaencryption"
    [] name = "sha512-224WithRSAEncryption" -> "sha512-224withrsaencryption"
    [] name = "sha512-256WithRSAEncryption" -> "sha512-256withrsaencryption"
    [] name = "sha512WithRSAEncryption" -> "sha512withrsaencryption"
    [] name = "sm3WithRSAEncryption" -> "sm3withrsaencryption"
    [] name = "SHA256" -> "sha256"
    [] OTHER -> name

\* Names no arm matches.
StrangerNames == {"not-a-hash", "SHA256", "sha-256", "shake512", ""}

RegistryNames == AliasNames \cup Range(get_hashes) \cup StrangerNames
RegistryLengths == {None} \cup {Some(n) : n \in 0..MaxOutputLength}

EngineNames == {"sha256", "md5", "shake128", "shake256", "not-a-hash"}
EngineLengths == {None, Some(16), Some(32)}

\* ------------------------------------------------------------ the calls
NoCall ==
  [op |-> "none", h |-> 0, name |-> "", len |-> None, data |-> <<>>,
   ret |-> "", err |-> "", arg |-> "", out |-> None, new |-> 0]

Live(h) == IsSome(handles[h].hash)
Consumed(h) == IsNone(handles[h].hash)
Handles == 1..Len(handles)

Init ==
  /\ handles = <<>>
  /\ made = <<>>
  /\ fed = <<>>
  /\ taken = <<>>
  /\ last = NoCall

\* Hasher::new(name, len); at most `cap` handles are ever created.
New(name, len, cap) ==
  LET r == Hasher_new(name, len) IN
  IF r.ok
    THEN /\ Len(handles) < cap
         /\ handles' = Append(handles, Unwrap(r.val))
         /\ made' = Append(made, [name |-> name, len |-> len, parent |-> 0])
         /\ fed' = Append(fed, <<>>)
         /\ taken' = Append(taken, 0)
         /\ last' = [NoCall EXCEPT !.op = "new", !.name = name, !.len = len,
                                   !.ret = "Ok", !.new = Len(handles) + 1]
    ELSE /\ last' = [NoCall EXCEPT !.op = "new", !.name = name, !.len = len,
                                   !.ret = "Err", !.err = r.err, !.arg = r.arg]
         /\ UNCHANGED <<handles, made, fed, taken>>

\* handle.update(data)
Update(h, data) ==
  LET r == Hasher_update(handles[h], data) IN
  /\ Live(h) => Len(Unwrap(handles[h].hash).context.data) + Len(data) <= MaxInput
  /\ handles' = [handles EXCEPT ![h] = r.self]
  /\ fed' = IF r.ret THEN [fed EXCEPT ![h] = @ \o data] ELSE fed
  /\ last' = [NoCall EXCEPT !.op = "update", !.h = h, !.data = data,
                            !.ret = IF r.ret THEN "true" ELSE "false"]
  /\ UNCHANGED <<made, taken>>

\* Mutant: a clone shares the cell of its original, so that taking the hash
\* of one handle empties the other as well.
Digest_shared(h) ==
  LET r == Hasher_digest(handles[h])
      shares(g) == g = h \/ made[g].parent = h \/ made[h].parent = g
  IN
  /\ handles' = [g \in DOMAIN handles |->
                   IF shares(g) THEN r.self ELSE handles[g]]
  /\ taken' = IF IsSome(r.ret) THEN [taken EXCEPT ![h] = @ + 1] ELSE taken
  /\ last' = [NoCall EXCEPT !.op = "digest", !.h = h, !.out = r.ret,
                            !.ret = IF IsSome(r.ret) THEN "Some" ELSE "None"]
  /\ UNCHANGED <<made, fed>>

\* handle.digest()
Digest(h) ==
  LET r == Hasher_digest(handles[h]) IN
  /\ handles' = [handles EXCEPT ![h] = r.self]
  /\ taken' = IF IsSome(r.ret) THEN [taken EXCEPT ![h] = @ + 1] ELSE taken
  /\ last' = [NoCall EXCEPT !.op = "digest", !.h = h, !.out = r.ret,
                            !.ret = IF IsSome(r.ret) THEN "Some" ELSE "None"]
  /\ UNCHANGED <<made, fed>>

\* Mutant: the hash is moved into the clone, which leaves the original empty.
CloneInner_moving(h, len, cap) ==
  LET r == Hasher_clone_inner(handles[h], len) IN
  IF r.ok /\ IsSome(Unwrap(r.val))
    THEN /\ Len(handles) < cap
         /\ handles' = Append([handles EXCEPT ![h] = Hasher(None)],
                              Unwrap(Unwrap(r.val)))
         /\ made' = Append(made, [name |-> made[h].name, len |-> len, parent |-> h])
         /\ fed' = Append(fed, fed[h])
         /\ taken' = Append(taken, 0)
         /\ last' = [NoCall EXCEPT !.op = "clone_inner", !.h = h, !.len = len,
                                   !.ret = "Some", !.new = Len(handles) + 1]
    ELSE /\ last' = [NoCall EXCEPT !.op = "clone_inner", !.h = h, !.len = len,
                                   !.ret = IF r.ok THEN "None" ELSE "Err",
                                   !.err = r.err]
         /\ UNCHANGED <<handles, made, fed, taken>>

\* handle.clone_inner(len)
CloneInner(h, len, cap) ==
  LET r == Hasher_clone_inner(handles[h], len) IN
  IF r.ok /\ IsSome(Unwrap(r.val))
    THEN /\ Len(handles) < cap
         /\ handles' = Append(handles, Unwrap(Unwrap(r.val)))
         /\ made' = Append(made, [name |-> made[h].name, len |-> len, parent |-> h])
         /\ fed' = Append(fed, fed[h])
         /\ taken' = Append(taken, 0)
         /\ last' = [NoCall EXCEPT !.op = "clone_inner", !.h = h, !.len = len,
                                   !.ret = "Some", !.new = Len(handles) + 1]
    ELSE /\ last' = [NoCall EXCEPT !.op = "clone_inner", !.h = h, !.len = len,
                                   !.ret = IF r.ok THEN "None" ELSE "Err",
                                   !.err = r.err]
         /\ UNCHANGED <<handles, made, fed, taken>>

\* Hash::get_size(name)
GetSize(name) ==
  /\ last' = [NoCall EXCEPT !.op = "get_size", !.name = name,
                            !.out = get_size(name),
                            !.ret = IF IsSome(get_size(name)) THEN "Some"
                                    ELSE "None"]
  /\ UNCHANGED <<handles, made, fed, taken>>

\* The engine: a few handles of representative algorithms, any interleaving.
Next ==
  \/ \E name \in EngineNames, len \in EngineLengths : New(name, len, MaxHandles)
  \/ \E h \in Handles, data \in Chunks : Update(h, data)
  \/ \E h \in Handles : Digest(h)
  \/ \E h \in Handles, len \in EngineLengths : CloneInner(h, len, MaxHandles)

Spec == Init /\ [][Next]_vars

\* The registry: the first call resolves any name with any requested length,
\* and the handle it yields, if any, is then finalized.
RegistryNext ==
  \/ /\ last = NoCall
     /\ \E name \in RegistryNames, len \in RegistryLengths : New(name, len, 1)
  \/ \E h \in Handles : Digest(h)
  \/ /\ last = NoCall
     /\ \E name \in RegistryNames : GetSize(name)

RegistrySpec == Init /\ [][RegistryNext]_vars

\* The provider path: the first call resolves "sha256" or "sha512", the two
\* names Hash::new routes to ring_sha2; the handle is then updated, cloned
\* once and finalized in any order.
ProviderNames == {"sha256", "sha512"}
ProviderLengths == {None, Some(0), Some(32), Some(64)}

ProviderNext ==
  \/ /\ last = NoCall
     /\ \E name \in ProviderNames, len \in ProviderLengths : New(name, len, 1)
  \/ \E h \in Handles, data \in Chunks : Update(h, data)
  \/ \E h \in Handles : Digest(h)
  \/ \E h \in Handles, len \in ProviderLengths : CloneInner(h, len, 2)

ProviderSpec == Init /\ [][ProviderNext]_vars

TypeOK ==
  /\ Len(handles) <= MaxHandles
  /\ Len(made) = Len(handles) /\ Len(fed) = Len(handles)
  /\ Len(taken) = Len(handles)

\* ================================================================ claims
LastOut == Unwrap(last.out)

\* A step that is a call of `op` on handle h.
Called(op, h) == last'.op = op /\ last'.h = h

\* C1: the first digest() on a live handle returns a digest and leaves the
\* handle consumed; digest() on a consumed handle returns None; so no handle
\* ever returns more than one digest.
C1_SingleConsumption ==
  [][\A h \in Handles :
       /\ Called("digest", h) =>
            IF Live(h)
              THEN /\ last'.ret = "Some" /\ IsSome(last'.out)
                   /\ IsNone(handles'[h].hash)
                   /\ taken'[h] = 1
              ELSE /\ last'.ret = "None" /\ IsNone(last'.out)
                   /\ IsNone(handles'[h].hash)
                   /\ taken'[h] = taken[h]
       /\ taken'[h] <= 1]_vars

\* A second digest() on a handle that returned a digest before.
C1_Witness ==
  /\ last.op = "digest" /\ last.ret = "None"
  /\ taken[last.h] = 1 /\ Consumed(last.h)

\* C2: update(data) on a consumed handle returns false (the AlreadyFinalized
\* signal) and leaves the handle consumed, holding nothing; on a live handle
\* it returns true, appends data to the accumulated input and leaves the
\* handle live.
C2_UpdateByState ==
  [][\A h \in Handles :
       Called("update", h) =>
         IF Live(h)
           THEN /\ last'.ret = "true"
                /\ IsSome(handles'[h].hash)
                /\ Unwrap(handles'[h].hash).context.data
                     = Unwrap(handles[h].hash).context.data \o last'.data
                /\ Unwrap(handles'[h].hash).context.prim
                     = Unwrap(handles[h].hash).context.prim
           ELSE /\ last'.ret = "false"
                /\ handles'[h] = Hasher(None)
                /\ fed'[h] = fed[h]]_vars

\* update() refused on a handle that has returned its digest, after an
\* update() that was accepted.
C2_Witness ==
  /\ last.op = "update" /\ last.ret = "false" /\ last.data # <<>>
  /\ taken[last.h] = 1 /\ fed[last.h] # <<>>

\* C3: every digest is the digest of exactly the bytes its own handle
\* accepted: for a clone, the bytes the original had accepted when it was
\* cloned followed by the clone's own updates; updates made to the other
\* handle after the clone are in neither output.
C3_CloneIndependence ==
  /\ \A h \in Handles :
       Live(h) => Unwrap(handles[h].hash).context.data = fed[h]
  /\ (last.op = "digest" /\ last.ret = "Some") =>
       LastOut.input = fed[last.h]

\* An original and its clone(None) share the first byte, were then fed
\* different bytes, and both have been finalized, the clone last.
C3_Witness ==
  /\ last.op = "digest" /\ last.ret = "Some"
  /\ made[last.h].parent # 0 /\ made[last.h].len = None
  /\ LET c == last.h
         h == made[last.h].parent
     IN /\ taken[h] = 1
        /\ Len(fed[h]) = 2 /\ Len(fed[c]) = 2
        /\ fed[h][1] = fed[c][1] /\ fed[h][2] # fed[c][2]
        /\ LastOut.input = fed[c]

\* ------------------------------------------------------ registry claims
Listed == Range(get_hashes)

\* The output length of a handle resolved from a listed name without a
\* requested length: the table's size, or the default of a shake algorithm.
ListedLength(name) ==
  IF IsSome(get_size(name)) THEN Unwrap(get_size(name))
  ELSE IF name = "shake128" THEN 16 ELSE 32

C6_Original ==
  (last.op = "new" /\ last.name \notin Listed) =>
    /\ last.ret = "Err" /\ last.err = "DigestMethodUnsupported"
    /\ last.arg = last.name /\ handles = <<>>

\* The names Hash::new accepts beyond the lower-case forms of get_hashes.
ExtraAliases == {"sha1-2", "shake-128", "shake-256"}

\* C6 amended: Hash::new fails with DigestMethodUnsupported(name), for every
\* length and creating no handle, for every name that is neither the
\* lower-case form of a name of get_hashes nor one of the aliases "sha1-2",
\* "shake-128", "shake-256"; every other name is resolved, so an unsupported
\* name is never reported as OutputLengthMismatch.
C6_UnknownNamesUnsupported ==
  last.op = "new" =>
    IF last.name \in {ToLower(n) : n \in Listed} \cup ExtraAliases
      THEN last.err # "DigestMethodUnsupported"
      ELSE /\ last.ret = "Err" /\ last.err = "DigestMethodUnsupported"
           /\ last.arg = last.name /\ handles = <<>>

\* A name that no arm matches was refused although a length was requested.
C6_Witness ==
  /\ last.op = "new" /\ last.name = "not-a-hash" /\ last.len = Some(32)
  /\ last.err = "DigestMethodUnsupported" /\ last.arg = "not-a-hash"
  /\ handles = <<>>

\* -------------------------------------------------------- engine claims
\* C7: a consumed handle stays consumed under every later call, and a live
\* handle becomes consumed only in a digest() call on that very handle.
C7_ConsumedTerminal ==
  [][\A h \in Handles :
       /\ Consumed(h) => IsNone(handles'[h].hash)
       /\ (Live(h) /\ IsNone(handles'[h].hash)) => Called("digest", h)
       /\ (Live(h) /\ ~Called("digest", h)) => IsSome(handles'[h].hash)]_vars

\* A handle that returned its digest was then asked for a clone, and it is
\* still consumed, while another handle is live.
C7_Witness ==
  /\ last.op = "clone_inner" /\ last.ret = "None"
  /\ Consumed(last.h) /\ taken[last.h] = 1
  /\ \E g \in Handles : Live(g) /\ fed[g] # <<>>

\* The size of the fixed-size algorithm a handle was resolved with.
FixedSizeOf(h) == get_size(made[h].name)
IsFixed(h) == made[h].name \notin {"shake128", "shake256"}

\* C8: clone_inner(len) on a live fixed-size handle of size n returns a new
\* handle when len is None or Some(n), and fails with OutputLengthMismatch
\* when len is Some(m), m # n; on the failure no handle is created and the
\* original is left live with the input it had.
C8_FixedCloneLength ==
  [][\A h \in Handles :
       (Called("clone_inner", h) /\ Live(h) /\ IsFixed(h)) =>
         IF last'.len = None \/ last'.len = FixedSizeOf(h)
           THEN /\ last'.ret = "Some" /\ last'.new = Len(handles) + 1
                /\ Len(handles') = Len(handles) + 1
                /\ handles'[last'.new] = handles[h]
                /\ handles'[h] = handles[h]
           ELSE /\ last'.ret = "Err" /\ last'.err = "OutputLengthMismatch"
                /\ last'.new = 0
                /\ handles' = handles
                /\ IsSome(handles'[h].hash)]_vars

\* A live md5 handle that holds input refused a clone of length 32.
C8_Witness ==
  /\ last.op = "clone_inner" /\ last.len = Some(32)
  /\ last.err = "OutputLengthMismatch"
  /\ made[last.h].name = "md5" /\ Live(last.h) /\ fed[last.h] # <<>>

\* C9: clone_inner(len) on a consumed handle returns None for every len, also
\* one that a live handle of the algorithm would refuse; the handle stays
\* consumed and no handle is created.
C9_CloneOfConsumed ==
  [][\A h \in Handles :
       (Called("clone_inner", h) /\ Consumed(h)) =>
         /\ last'.ret = "None" /\ last'.err = "" /\ last'.new = 0
         /\ handles' = handles
         /\ IsNone(handles'[h].hash)]_vars

\* A consumed md5 handle was asked for a clone of length 32.
C9_Witness ==
  /\ last.op = "clone_inner" /\ last.len = Some(32) /\ last.ret = "None"
  /\ made[last.h].name = "md5" /\ FixedSizeOf(last.h) = Some(16)
  /\ Consumed(last.h)

\* C10: the digest of a shake128 / shake256 handle has the length given when
\* the handle was resolved or cloned, and 16 / 32 bytes when none was given.
C10_ShakeLength ==
  (last.op = "digest" /\ last.ret = "Some" /\ ~IsFixed(last.h)) =>
    LastOut.len =
      IF IsSome(made[last.h].len) THEN Unwrap(made[last.h].len)
      ELSE IF made[last.h].name = "shake128" THEN 16 ELSE 32

\* A shake128 handle resolved with length 32 was cloned without a length and
\* the clone finalized to the default 16 bytes.
C10_Witness ==
  /\ last.op = "digest" /\ last.ret = "Some"
  /\ made[last.h].name = "shake128" /\ made[last.h].len = None
  /\ made[last.h].parent # 0
  /\ made[made[last.h].parent].len = Some(32)
  /\ LastOut.len = 16

\* C11: clone_inner(Some(k)) on a live shake handle succeeds for every k; the
\* clone would finalize to exactly k bytes over the input the original held
\* when it was cloned, and the original, its own output length included, is
\* unchanged by the call.
C11_ShakeCloneLength ==
  [][\A h \in Handles :
       (Called("clone_inner", h) /\ Live(h) /\ ~IsFixed(h)
          /\ IsSome(last'.len)) =>
         /\ last'.ret = "Some" /\ last'.err = ""
         /\ last'.new = Len(handles) + 1
         /\ Len(handles') = Len(handles) + 1
         /\ IsSome(handles'[last'.new].hash)
         /\ LET orig == Unwrap(handles[h].hash)
                out == Hasher_digest(handles'[last'.new]).ret
            IN /\ IsSome(out)
               /\ Unwrap(out).len = Unwrap(last'.len)
               /\ Unwrap(out).input = orig.context.data
               /\ Unwrap(out).prim = orig.context.prim
               /\ Unwrap(handles'[h].hash).output_length = orig.output_length
         /\ handles'[h] = handles[h]]_vars

\* A shake256 handle resolved without a length and holding input was cloned
\* with the length 16; the clone has been finalized to 16 bytes over that
\* input and the original is still live.
C11_Witness ==
  /\ last.op = "digest" /\ last.ret = "Some"
  /\ made[last.h].name = "shake256" /\ made[last.h].len = Some(16)
  /\ made[last.h].parent # 0
  /\ LET h == made[last.h].parent
     IN /\ made[h].len = None /\ Live(h)
        /\ fed[h] # <<>> /\ fed[last.h] = fed[h]
        /\ Unwrap(handles[h].hash).output_length = None
  /\ LastOut.len = 16 /\ LastOut.input = fed[last.h]

\* C12: get_size(name) is Some(n) exactly for the names of get_hashes other
\* than shake128 and shake256; it is None for those two and for every name
\* that get_hashes does not list.
C12_SizeExactlyForListedFixed ==
  last.op = "get_size" =>
    /\ IsSome(last.out) <=> last.name \in Listed \ {"shake128", "shake256"}
    /\ IsSome(last.out) => Unwrap(last.out) \in {16, 20, 28, 32, 48, 64}
    /\ last.ret = IF IsSome(last.out) THEN "Some" ELSE "None"

\* get_size gave None for the lower-case alias "rsa-sha256", which get_hashes
\* lists only as "RSA-SHA256".
C12_Witness ==
  /\ last.op = "get_size" /\ last.name = "rsa-sha256" /\ last.out = None
  /\ "rsa-sha256" \notin Listed /\ "RSA-SHA256" \in Listed
  /\ get_size("shake128") = None /\ get_size("RSA-SHA256") = Some(32)

\* Handles g and h were created for the same algorithm name with the same
\* output length and have accepted the same bytes.
SameHistory(g, h) ==
  /\ made[g].name = made[h].name
  /\ made[g].len = made[h].len
  /\ fed[g] = fed[h]

\* C13: when a live handle is finalized, its digest is the one every other
\* live handle of the same algorithm name, output length and accepted bytes
\* returns, whether the handles were resolved by name or cloned and however
\* the bytes were split between before and after a clone.
C13_Determinism ==
  [][\A h \in Handles, g \in Handles :
       (Called("digest", h) /\ Live(h) /\ g # h /\ Live(g)
          /\ SameHistory(g, h)) =>
         /\ last'.ret = "Some"
         /\ last'.out = Hasher_digest(handles'[g]).ret
         /\ handles[g] = handles[h]]_vars

\* A handle resolved by name was finalized to a 32-byte shake128 digest of
\* two bytes while its own clone, of the same algorithm, length and input,
\* was live.
C13_Witness ==
  /\ last.op = "digest" /\ last.ret = "Some"
  /\ made[last.h].parent = 0 /\ Len(fed[last.h]) = 2
  /\ made[last.h].name = "shake128" /\ made[last.h].len = Some(32)
  /\ \E g \in Handles :
       /\ g # last.h /\ Live(g) /\ SameHistory(g, last.h)
       /\ made[g].parent = last.h
       /\ last.out = Hasher_digest(handles[g]).ret

\* C14: a clone_inner() call that returns a handle leaves the original as it
\* was, live with the same input and the same output length, and the new
\* handle starts live with a copy of that input.
C14_CloneLeavesOriginal ==
  [][\A h \in Handles :
       (Called("clone_inner", h) /\ last'.ret = "Some") =>
         /\ Live(h)
         /\ handles'[h] = handles[h]
         /\ \A g \in Handles : handles'[g] = handles[g]
         /\ made'[h] = made[h] /\ fed'[h] = fed[h] /\ taken'[h] = taken[h]
         /\ Len(handles') = Len(handles) + 1
         /\ last'.new = Len(handles')
         /\ IsSome(handles'[last'.new].hash)
         /\ Unwrap(handles'[last'.new].hash).context
              = Unwrap(handles[h].hash).context
         /\ Unwrap(handles'[last'.new].hash).tag
              = Unwrap(handles[h].hash).tag]_vars

\* A live shake128 handle of length 32 that holds a byte was just cloned with
\* another length; it still holds the byte and its own length.
C14_Witness ==
  /\ last.op = "clone_inner" /\ last.ret = "Some" /\ last.len = Some(16)
  /\ made[last.h].name = "shake128" /\ made[last.h].len = Some(32)
  /\ Live(last.h) /\ Live(last.new)
  /\ Len(fed[last.h]) = 1
  /\ Unwrap(handles[last.h].hash).context.data = fed[last.h]
  /\ Unwrap(handles[last.h].hash).output_length = Some(32)
  /\ Unwrap(handles[last.new].hash).context.data = fed[last.h]

\* C15: digest() on one handle changes no other handle: every other handle
\* that was live, clone or original of the finalized one included, is still
\* live with its input, so its next update() is accepted and its own first
\* digest() returns a digest.
C15_SiblingsStayLive ==
  [][\A h \in Handles, g \in Handles :
       (Called("digest", h) /\ g # h) =>
         /\ handles'[g] = handles[g]
         /\ taken'[g] = taken[g] /\ fed'[g] = fed[g]
         /\ Live(g) =>
              /\ IsSome(handles'[g].hash)
              /\ \A data \in Chunks : Hasher_update(handles'[g], data).ret
              /\ IsSome(Hasher_digest(handles'[g]).ret)]_vars

\* After its original was finalized, a clone accepted an update and then
\* returned its own digest, over its own bytes.
C15_Witness ==
  /\ last.op = "digest" /\ last.ret = "Some"
  /\ made[last.h].parent # 0
  /\ LET h == made[last.h].parent
     IN /\ taken[h] = 1 /\ Consumed(h)
        /\ Len(fed[h]) = 1 /\ Len(fed[last.h]) = 2
        /\ fed[last.h][1] = fed[h][1]
  /\ LastOut.input = fed[last.h]

ShakeNames == {"shake128", "shake-128", "shake256", "shake-256"}

\* C16: Hash::new of a shake name succeeds for every requested length, None
\* or Some(k), and never reports OutputLengthMismatch; the length is stored on
\* the handle as given and first used by digest(), which returns that many
\* bytes, or 16 / 32 when none was given.
C16_ShakeLengthUnchecked ==
  /\ (last.op = "new" /\ last.name \in ShakeNames) =>
       /\ last.ret = "Ok" /\ last.err = "" /\ last.new = 1
       /\ Len(handles) = 1 /\ Live(1)
       /\ Unwrap(handles[1].hash).output_length = last.len
       /\ Unwrap(handles[1].hash).tag \in {"Shake128", "Shake256"}
  /\ (last.op = "digest" /\ last.ret = "Some" /\ made[1].name \in ShakeNames) =>
       LastOut.len =
         IF IsSome(made[1].len) THEN Unwrap(made[1].len)
         ELSE IF made[1].name \in {"shake128", "shake-128"} THEN 16 ELSE 32

\* shake256 was resolved with the length 0, which no fixed algorithm has.
C16_Witness ==
  /\ last.op = "new" /\ last.name = "shake256" /\ last.len = Some(0)
  /\ last.ret = "Ok" /\ Live(1)
  /\ Unwrap(handles[1].hash).output_length = Some(0)

\* The aliases that reach the same algorithm through match_fixed_digest.
GenericAliases(name) ==
  IF name = "sha256" THEN {"rsa-sha256", "sha256withrsaencryption"}
  ELSE IF name = "sha512" THEN {"rsa-sha512", "sha512withrsaencryption"}
  ELSE {}

GenericPrim(prim) ==
  IF prim = "RingSha256" THEN "Sha256"
  ELSE IF prim = "RingSha512" THEN "Sha512"
  ELSE prim

\* The handle an alias would hold in place of a provider handle: the same
\* state, with the generic primitive.
Generic(hasher) ==
  IF IsNone(hasher.hash) THEN hasher
  ELSE Hasher(Some([Unwrap(hasher.hash) EXCEPT
                      !.context.prim = GenericPrim(@)]))

\* C17: a handle resolved as "sha256" / "sha512" behaves as the handle its
\* aliases resolve to: Hash::new has the same outcome for every requested
\* length, and every update, digest and clone_inner call on the handle has the
\* outcome, the same length rule and the same output length (32 resp. 64) as
\* the call on the generic handle in the corresponding state.
C17_ProviderEquivalent ==
  [][/\ (last'.op = "new" /\ last'.name \in ProviderNames) =>
          \A alias \in GenericAliases(last'.name) :
            LET r == Hasher_new(alias, last'.len) IN
            /\ (last'.ret = "Ok") = r.ok
            /\ last'.err = r.err
            /\ r.ok => Generic(handles'[last'.new]) = Unwrap(r.val)
     /\ \A h \in Handles :
          /\ Called("update", h) =>
               LET r == Hasher_update(Generic(handles[h]), last'.data) IN
               /\ (last'.ret = "true") = r.ret
               /\ Generic(handles'[h]) = r.self
          /\ Called("digest", h) =>
               LET r == Hasher_digest(Generic(handles[h])) IN
               /\ IsSome(last'.out) = IsSome(r.ret)
               /\ Generic(handles'[h]) = r.self
               /\ IsSome(r.ret) =>
                    /\ Unwrap(last'.out).len = Unwrap(r.ret).len
                    /\ Unwrap(last'.out).input = Unwrap(r.ret).input
                    /\ Unwrap(last'.out).len =
                         IF made[h].name = "sha256" THEN 32 ELSE 64
          /\ Called("clone_inner", h) =>
               LET r == Hasher_clone_inner(Generic(handles[h]), last'.len) IN
               /\ (last'.ret = "Err") = ~r.ok
               /\ last'.err = r.err
               /\ (last'.ret = "Some") = (r.ok /\ IsSome(Unwrap(r.val)))
               /\ last'.ret = "Some" =>
                    Generic(handles'[last'.new]) = Unwrap(Unwrap(r.val))]_vars

\* A live "sha512" handle that holds input refused a clone of length 32, as
\* the handle of its alias does.
C17_Witness ==
  /\ last.op = "clone_inner" /\ last.len = Some(32)
  /\ last.ret = "Err" /\ last.err = "OutputLengthMismatch"
  /\ made[last.h].name = "sha512" /\ Live(last.h) /\ fed[last.h] # <<>>
  /\ Unwrap(handles[last.h].hash).context.prim = "RingSha512"
  /\ Hasher_clone_inner(Generic(handles[last.h]), last.len).err
       = "OutputLengthMismatch"
  /\ Hasher_new("rsa-sha512", None).ok

ShakeDefault(name) == IF name = "shake128" THEN 16 ELSE 32

\* C18: the output length of a shake clone is the one passed to
\* clone_inner and is not inherited: a clone made without a length finalizes
\* to the default (16 for shake128, 32 for shake256) whatever length L its
\* original was created with, and an original that has been cloned still
\* finalizes to its own L bytes.
C18_CloneLengthNotInherited ==
  (last.op = "digest" /\ last.ret = "Some" /\ ~IsFixed(last.h)) =>
    /\ (made[last.h].parent # 0 /\ made[last.h].len = None) =>
         LastOut.len = ShakeDefault(made[last.h].name)
    /\ \A c \in Handles :
         (made[c].parent = last.h /\ IsSome(made[last.h].len)) =>
           LastOut.len = Unwrap(made[last.h].len)

\* A shake256 handle resolved with the length 16 was cloned without a length;
\* the clone finalized to 32 bytes and then the original to its 16 bytes.
C18_Witness ==
  /\ last.op = "digest" /\ last.ret = "Some"
  /\ made[last.h].name = "shake256" /\ made[last.h].len = Some(16)
  /\ made[last.h].parent = 0
  /\ LastOut.len = 16
  /\ \E c \in Handles :
       /\ made[c].parent = last.h /\ made[c].len = None
       /\ taken[c] = 1

====
